---- MODULE Spec2Model ----
(***************************************************************************)
(* The background service worker of the LinkedIn profile scraper           *)
(* (chrome-extension/background.js): the message handlers and the          *)
(* sequential batch loop, as a state machine over the JavaScript event     *)
(* loop.  One action is one run-to-completion task: a message handler up   *)
(* to its first await, or the continuation of an async function from the   *)
(* await that just settled up to the next one.  The profile routes of the  *)
(* backend (server.js) over the Profile model follow, in the same way.     *)
(***************************************************************************)
EXTENDS Integers, Sequences, FiniteSets, Bags, TLC

\* Number of startBatchProcessing requests the model lets the handler accept.
MaxStarts == 2
\* Longest URL list a startBatchProcessing message carries.
MaxUrls == 2
\* CONFIG.MAX_RETRIES
MAX_RETRIES == 2

NULL == "null"

\* let tab = null: no tab id.
NoTab == <<>>

Batches == 1..MaxStarts

\* message.data.urls: the URL lists a startBatchProcessing message may carry
\* (the empty list included); a URL is named by a number.
UrlLists == {[k \in 1..n |-> k] : n \in 0..MaxUrls}

\* The id chrome.tabs.create gives the tab opened by batch b for the URL at
\* index i on attempt r: the browser never gives the same id twice.
TabId(b, i, r) == <<b, i, r>>

VARIABLES
    extensionState,   \* the module-level state object
    batch,            \* per accepted start: the locals of its async call chain
    started,          \* how many start requests were accepted so far
    openTabs,         \* the tabs open in the browser
    statistics,       \* chrome.storage.local's "statistics"
    response,         \* what the latest task passed to sendResponse (NoResponse: nothing)
    lastProgress,     \* the latest progressUpdate event the popup received
    stopRequested,    \* history: batches whose loop was executing when a stop was handled
    errorEvents,      \* history: how many 'error' and 'unhandledrejection' events were handled
    page,             \* the extractor: what the document of the tab holds
    record,           \* the extractor: the record extractLinkedInProfileAdvanced returned
    store,            \* the backend: the rows of the profiles table
    nextId,           \* the backend: the next value of the autoIncrement id
    requests,         \* the backend: the route handlers in flight (a bag)
    res,              \* the backend: the response the latest step sent (NoReply: none)
    clock,            \* the rate limiter: Date.now()
    rateRequests,     \* the rate limiter: its Map of requests (key -> timestamp)
    admitted          \* the rate limiter, history: the requests it passed on to next()

\* The extractor, which runs in the page of a tab.
extractor == <<page, record>>

\* The rate limiting middleware of the backend.
limiter == <<clock, rateRequests, admitted>>

\* The state of the backend, which the worker's steps leave alone (the
\* worker's saves draw the backend's reply from BackendReplies).
backend == <<store, nextId, requests, res, clock, rateRequests, admitted>>

\* The state of the extension, which the backend's steps leave alone.
extension == <<extensionState, batch, started, openTabs, statistics, response,
               lastProgress, stopRequested, errorEvents, page, record>>

vars == <<extensionState, batch, started, openTabs, statistics, response,
          lastProgress, stopRequested, errorEvents, page, record,
          store, nextId, requests, res, clock, rateRequests, admitted>>

\* let extensionState = {...}
InitialExtensionState ==
    [isProcessing |-> FALSE,
     currentBatch |-> <<>>,
     processedCount |-> 0,
     successCount |-> 0,
     errorCount |-> 0,
     activeTabs |-> {},
     processingStartTime |-> 0]

\* const results = {...} at the top of processBatchUrls
NewResults(urls) ==
    [successful |-> <<>>,
     failed |-> <<>>,
     skipped |-> <<>>,
     summary |-> [total |-> Len(urls), success |-> 0, errors |-> 0, duplicates |-> 0]]

\* An error message is the sequence of its words; no message (undefined, or
\* the empty string) is the empty sequence.
NoError == <<>>

\* The value processSingleUrl is about to return while closeTab is awaited
\* (cont "return"), or the catch block it is in (cont "catch") with the
\* error it caught.
NoResult == [cont |-> NULL, success |-> FALSE, isDuplicate |-> FALSE, error |-> NoError]

\* A JavaScript number field that is missing (undefined), and the NaN that
\* undefined + n evaluates to; every real count is >= 0.
Undefined == -2
NaN == -1

\* chrome.runtime.onInstalled, reason 'install': the stored statistics have no
\* totalDuplicates field.
InstalledStatistics ==
    [totalProcessed |-> 0, totalSuccess |-> 0, totalErrors |-> 0,
     totalDuplicates |-> Undefined]

\* The locals of a call chain that has not started; saveRequests (history)
\* counts the create-profile requests sent for the URL being processed, and
\* profileStatus is profileData.extractionStatus of the record sent with it.
IdleBatch ==
    [pc |-> "idle", urls |-> <<>>, i |-> 0, retryCount |-> 0, tab |-> NoTab,
     after |-> NoResult, results |-> NewResults(<<>>), stats |-> InstalledStatistics,
     saveRequests |-> 0, profileStatus |-> NULL]

\* No sendResponse call / no progressUpdate event yet.
NoResponse == [action |-> NULL, success |-> FALSE, error |-> NULL, data |-> NULL]
NoProgress == [processed |-> 0, total |-> 0, currentUrl |-> 0]

\* No response of the backend yet.
NoReply ==
    [op |-> NULL, status |-> 0, url |-> <<>>, id |-> 0,
     created |-> <<>>, skipped |-> <<>>, errors |-> <<>>, total |-> 0]

\* A string field a record does not have (undefined).
Missing == "undefined"

\* A document in which the selectors of the extractor find nothing: the
\* texts the name, headline and location selectors find ("": none), the
\* counts parsed from the elements each method looks at (in document order),
\* and whether a DOM call throws.
BlankPage ==
    [throws |-> FALSE, name |-> "", bioLine |-> "", location |-> "",
     connectionElements |-> <<>>, followerElements |-> <<>>,
     fallbackConnections |-> <<>>, fallbackFollowers |-> <<>>,
     connectionLinks |-> <<>>, followerLinks |-> <<>>]

\* No document (the extractor is not running), and no record (the
\* extractor has not returned).
NoPage == [throws |-> FALSE]
NoRecord == [extractionStatus |-> NULL]

\* ------------------------------------------------------------ the extractor
\* extractLinkedInProfileAdvanced, the function the worker runs in the page of
\* a tab.  The document is what its selectors find: the texts, and for each
\* of the three count methods the numbers parsed from the elements it looks
\* at, in document order.

\* The most elements with a count the selectors and the fallback scan find,
\* and the most links with a count.
MaxElements == 1
MaxLinks == 2

\* if (count < 100000) and if (count < 10000000) of the link method
LINK_CONNECTION_LIMIT == 100000
LINK_FOLLOWER_LIMIT == 10000000
\* if (profileData.connectionCount > 100000), if (profileData.followerCount > 50000000)
CONNECTION_CEILING == 100000
FOLLOWER_CEILING == 50000000

\* The numbers parseInt returns for the connection and follower texts of the
\* documents: below, at and above the limits.
ConnectionParses == {500, 100000, 250000}
FollowerParses == {500000, 20000000, 60000000}
ConnectionLinkParses == {500, 250000}
FollowerLinkParses == {500000, 20000000}

\* The sequences of at most n elements of S.
SeqsUpTo(S, n) == UNION {[1..k -> S] : k \in 0..n}

\* The documents with at most n elements and m links that have a count:
\* every combination of texts and counts, and a document on which a DOM call
\* throws.
Pages(n, m) ==
    {[throws |-> FALSE, name |-> nm, bioLine |-> bl, location |-> loc,
      connectionElements |-> ce, followerElements |-> fe,
      fallbackConnections |-> fc, fallbackFollowers |-> ff,
      connectionLinks |-> cl, followerLinks |-> fl] :
        nm \in {"", "Ada"}, bl \in {"", "Engineer"}, loc \in {"", "Pune"},
        ce \in SeqsUpTo(ConnectionParses, n),
        fe \in SeqsUpTo(FollowerParses, n),
        fc \in SeqsUpTo(ConnectionParses, n),
        ff \in SeqsUpTo(FollowerParses, n),
        cl \in SeqsUpTo(ConnectionLinkParses, m),
        fl \in SeqsUpTo(FollowerLinkParses, m)}
      \cup {[BlankPage EXCEPT !.throws = TRUE]}

\* Method 1: the first element of the selectors that has a count (break).
FirstCount(counts) == IF counts = <<>> THEN 0 ELSE Head(counts)

\* Method 2, the fallback scan: an element's count is taken while the count
\* is still 0.
RECURSIVE ScanCounts(_, _)
ScanCounts(counts, count) ==
    IF counts = <<>> THEN count
    ELSE ScanCounts(Tail(counts), IF count = 0 THEN Head(counts) ELSE count)

\* Method 3, the links: the first count below the limit is taken (break).
RECURSIVE FirstBelow(_, _)
FirstBelow(counts, limit) ==
    IF counts = <<>> THEN 0
    ELSE IF Head(counts) < limit THEN Head(counts)
         ELSE FirstBelow(Tail(counts), limit)

\* connectionCount and followerCount after the three methods, before the
\* sanity check.
CountsFound(pg) ==
    LET c1 == FirstCount(pg.connectionElements)
        f1 == FirstCount(pg.followerElements)
        fallback == c1 = 0 /\ f1 = 0
        c2 == IF fallback THEN ScanCounts(pg.fallbackConnections, c1) ELSE c1
        f2 == IF fallback THEN ScanCounts(pg.fallbackFollowers, f1) ELSE f1
    IN  [connectionCount |->
            IF c2 = 0 THEN FirstBelow(pg.connectionLinks, LINK_CONNECTION_LIMIT) ELSE c2,
         followerCount |->
            IF f2 = 0 THEN FirstBelow(pg.followerLinks, LINK_FOLLOWER_LIMIT) ELSE f2]

\* "Sanity check and validation": a count above its ceiling is set to 0.
Sanitize(count, ceiling) == IF count > ceiling THEN 0 ELSE count

\* !value of a string field
Empty(text) == text = "" \/ text = Missing

\* "Determine extraction status"
DetermineStatus(name, bioLine, location) ==
    IF Empty(name) THEN "failed"
    ELSE IF Empty(bioLine) /\ Empty(location) THEN "partial"
    ELSE "success"

\* The record the catch block of the extractor returns: it has no location
\* and no counts.
ExtractionFailedRecord ==
    [name |-> "Extraction Failed", bioLine |-> "Could not extract profile data",
     location |-> Missing, followerCount |-> Undefined, connectionCount |-> Undefined,
     extractionStatus |-> "failed"]

\* function extractLinkedInProfileAdvanced()
extractLinkedInProfileAdvanced(pg) ==
    IF pg.throws THEN ExtractionFailedRecord
    ELSE [name |-> pg.name, bioLine |-> pg.bioLine, location |-> pg.location,
          followerCount |-> Sanitize(CountsFound(pg).followerCount, FOLLOWER_CEILING),
          connectionCount |-> Sanitize(CountsFound(pg).connectionCount, CONNECTION_CEILING),
          extractionStatus |-> DetermineStatus(pg.name, pg.bioLine, pg.location)]

\* The documents the tabs of the worker hold: a profile with a headline, a
\* profile of which only the name is found, a document on which the
\* extractor throws, and one without a name.
ProfilePage == [BlankPage EXCEPT !.name = "Ada", !.bioLine = "Engineer"]
NameOnlyPage == [BlankPage EXCEPT !.name = "Ada"]
ThrowingPage == [BlankPage EXCEPT !.throws = TRUE]
WorkerPages == {ProfilePage, NameOnlyPage, ThrowingPage, BlankPage}

\* The worker, the backend and its middleware before any event.
InitOthers ==
    /\ extensionState = InitialExtensionState
    /\ batch = [b \in Batches |-> IdleBatch]
    /\ started = 0
    /\ openTabs = {}
    /\ statistics = InstalledStatistics
    /\ response = NoResponse
    /\ lastProgress = NoProgress
    /\ stopRequested = {}
    /\ errorEvents = 0
    /\ store = {}
    /\ nextId = 1
    /\ requests = EmptyBag
    /\ res = NoReply
    /\ clock = 0
    /\ rateRequests = {}
    /\ admitted = <<>>

Init ==
    /\ InitOthers
    /\ page = NoPage
    /\ record = NoRecord

\* function resetState()
resetState(es) ==
    [es EXCEPT !.isProcessing = FALSE,
               !.currentBatch = <<>>,
               !.processedCount = 0,
               !.successCount = 0,
               !.errorCount = 0,
               !.activeTabs = {},
               !.processingStartTime = 0]

\* The loop of batch b is still executing (it has not left the for statement).
LoopPcs == {"creating", "loading", "settling", "extracting", "saving",
            "closing", "backoff", "throttle"}

LoopRunning(b) == batch[b].pc \in LoopPcs

RunningLoops == {b \in Batches : LoopRunning(b)}

\* What one task leaves behind: the state object, the locals of the call
\* chain, the tabs chrome.tabs.remove was called for, and the progressUpdate
\* event it sent (emit).
Task(es, br, close, emit, progress) ==
    [es |-> es, br |-> br, close |-> close, emit |-> emit, progress |-> progress]

\* processBatchUrls returns its results; handleStartBatchProcessing calls
\* updateStatistics, which awaits chrome.storage.local.get.
ExitLoop(es, br) ==
    Task(es, [br EXCEPT !.pc = "statsGet"], {}, FALSE, NoProgress)

\* The head of one loop iteration: processedCount, the progressUpdate event,
\* then processSingleUrl up to its first await (chrome.tabs.create).
BeginIteration(es, br, idx) ==
    Task([es EXCEPT !.processedCount = idx + 1],
         [br EXCEPT !.i = idx, !.retryCount = 0, !.tab = NoTab, !.pc = "creating",
                    !.saveRequests = 0, !.profileStatus = NULL],
         {}, TRUE,
         [processed |-> idx + 1, total |-> Len(br.urls), currentUrl |-> br.urls[idx + 1]])

\* if (result.success) ... else if (result.isDuplicate) ... else ...
ResultKind(result) ==
    IF result.success THEN "success"
    ELSE IF result.isDuplicate THEN "duplicate"
    ELSE "error"

\* The tallies and lists updated for one result of processSingleUrl (of the
\* entry pushed for a success only the url is kept).
RecordResult(results, url, result) ==
    CASE ResultKind(result) = "success" ->
            [results EXCEPT !.successful = Append(@, [url |-> url]),
                            !.summary.success = @ + 1]
      [] ResultKind(result) = "duplicate" ->
            [results EXCEPT !.skipped = Append(@, [url |-> url, reason |-> "duplicate",
                                                   error |-> result.error]),
                            !.summary.duplicates = @ + 1]
      [] OTHER ->
            [results EXCEPT !.failed = Append(@, [url |-> url, error |-> result.error]),
                            !.summary.errors = @ + 1]

\* extensionState.successCount++ / errorCount++ for one result.
CountResult(es, result) ==
    CASE ResultKind(result) = "success" -> [es EXCEPT !.successCount = @ + 1]
      [] ResultKind(result) = "duplicate" -> es
      [] OTHER -> [es EXCEPT !.errorCount = @ + 1]

\* if (i < urls.length - 1): the throttle wait follows this URL.
NotLastUrl(br) == br.i < Len(br.urls) - 1

\* processSingleUrl has returned result: the rest of the iteration.  After the
\* last URL there is no wait, and the loop ends by break or by its condition.
\* (The catch block of the loop body is never entered: processSingleUrl and
\* notifyPopupProgress catch whatever is thrown inside them.)
AfterProcessSingleUrl(es, br, result) ==
    LET es1 == CountResult(es, result)
        br1 == [br EXCEPT !.results = RecordResult(@, br.urls[br.i + 1], result),
                          !.after = NoResult]
    IN  IF NotLastUrl(br)
        THEN Task(es1, [br1 EXCEPT !.pc = "throttle"], {}, FALSE, NoProgress)
        ELSE ExitLoop(es1, br1)

\* return { success: false, error: `Failed after ${CONFIG.MAX_RETRIES} attempts` }
FailedAfterRetries ==
    [cont |-> "return", success |-> FALSE, isDuplicate |-> FALSE,
     error |-> <<"Failed", "after", "2", "attempts">>]

\* A catch block that does not count the attempt.
CatchAfterCleanupUncounted(es, br) ==
    LET br1 == [br EXCEPT !.after = NoResult]
    IN  IF br1.retryCount < MAX_RETRIES
        THEN Task(es, [br1 EXCEPT !.pc = "backoff"], {}, FALSE, NoProgress)
        ELSE AfterProcessSingleUrl(es, br1, FailedAfterRetries)

\* The catch block after its cleanup: retryCount++, then the backoff wait or,
\* attempts exhausted, the end of the while loop and the failure result.
CatchAfterCleanup(es, br) ==
    LET br1 == [br EXCEPT !.retryCount = @ + 1, !.after = NoResult]
    IN  IF br1.retryCount < MAX_RETRIES
        THEN Task(es, [br1 EXCEPT !.pc = "backoff"], {}, FALSE, NoProgress)
        ELSE AfterProcessSingleUrl(es, br1, FailedAfterRetries)

\* if (tab && extensionState.activeTabs.has(tab.id))
CleanupNeeded(es, br) == br.tab # NoTab /\ br.tab \in es.activeTabs

\* The catch block of processSingleUrl with the error it caught: closeTab is
\* awaited only for a tab that is still tracked.
Catch(es, br, error) ==
    IF CleanupNeeded(es, br)
    THEN Task(es, [br EXCEPT !.pc = "closing",
                             !.after = [NoResult EXCEPT !.cont = "catch", !.error = error]],
              {br.tab}, FALSE, NoProgress)
    ELSE CatchAfterCleanup(es, br)

\* A task of batch b ends in t.  chrome.tabs.remove closes the tab in the
\* browser; the popup receives the progressUpdate event.
Commit(b, t) ==
    /\ extensionState' = t.es
    /\ batch' = [batch EXCEPT ![b] = t.br]
    /\ openTabs' = openTabs \ t.close
    /\ lastProgress' = IF t.emit THEN t.progress ELSE lastProgress
    /\ response' = NoResponse
    /\ UNCHANGED <<started, statistics, stopRequested>>
    /\ UNCHANGED <<errorEvents, extractor, backend>>

\* ---------------------------------------------------------------- messages

\* A guard that takes a batch to be running only while a tab is tracked.
AlreadyRunningWhenTabTracked(es) == es.isProcessing /\ es.activeTabs # {}

\* if (extensionState.isProcessing): the guard of handleStartBatchProcessing.
AlreadyRunning(es) == es.isProcessing

\* if (!urls || !Array.isArray(urls) || urls.length === 0)
NoUrls(urls) == Len(urls) = 0

\* "Initialize processing state" in handleStartBatchProcessing; the start
\* time of batch b is the timestamp b.
InitializeProcessing(es, urls, b) ==
    [es EXCEPT !.isProcessing = TRUE,
               !.currentBatch = urls,
               !.processedCount = 0,
               !.successCount = 0,
               !.errorCount = 0,
               !.processingStartTime = b]

\* handleStartBatchProcessing(data, sendResponse), up to the first await of
\* the call chain it starts (processBatchUrls -> processSingleUrl ->
\* chrome.tabs.create).
handleStartBatchProcessing(urls) ==
    \/ /\ AlreadyRunning(extensionState)
       /\ response' = [action |-> "startBatchProcessing", success |-> FALSE,
                       error |-> "Batch processing already in progress", data |-> NULL]
       /\ UNCHANGED <<extensionState, batch, started, openTabs, statistics,
                      lastProgress, stopRequested>>
       /\ UNCHANGED <<errorEvents, extractor, backend>>
    \/ /\ ~AlreadyRunning(extensionState)
       /\ NoUrls(urls)
       /\ response' = [action |-> "startBatchProcessing", success |-> FALSE,
                       error |-> "No URLs provided for processing", data |-> NULL]
       /\ UNCHANGED <<extensionState, batch, started, openTabs, statistics,
                      lastProgress, stopRequested>>
       /\ UNCHANGED <<errorEvents, extractor, backend>>
    \/ /\ ~AlreadyRunning(extensionState)
       /\ ~NoUrls(urls)
       /\ started < MaxStarts
       /\ LET b == started + 1
              t == BeginIteration(InitializeProcessing(extensionState, urls, b),
                                  [IdleBatch EXCEPT !.urls = urls,
                                                    !.results = NewResults(urls)],
                                  0)
          IN  /\ started' = b
              /\ extensionState' = t.es
              /\ batch' = [batch EXCEPT ![b] = t.br]
              /\ lastProgress' = t.progress
       /\ response' = NoResponse
       /\ UNCHANGED <<openTabs, statistics, stopRequested>>
       /\ UNCHANGED <<errorEvents, extractor, backend>>

\* The tabs handleStopBatchProcessing calls closeTab for: each closeTab runs
\* up to its await, so chrome.tabs.remove is called for every tracked tab
\* before resetState runs.  (The activeTabs.delete that follows each await
\* finds the set already cleared, and tab ids are never reused.)
TabsClosedByStop(es) == es.activeTabs

\* handleStopBatchProcessing(sendResponse)
handleStopBatchProcessing ==
    /\ openTabs' = openTabs \ TabsClosedByStop([extensionState EXCEPT !.isProcessing = FALSE])
    /\ extensionState' = resetState([extensionState EXCEPT !.isProcessing = FALSE])
    /\ response' = [action |-> "stopBatchProcessing", success |-> TRUE,
                    error |-> NULL, data |-> "Batch processing stopped"]
    /\ stopRequested' = stopRequested \cup RunningLoops
    /\ UNCHANGED <<batch, started, statistics, lastProgress>>
    /\ UNCHANGED <<errorEvents, extractor, backend>>

\* The data of a getProcessingStatus response.
ProcessingStatus(es) ==
    [isProcessing |-> es.isProcessing,
     processedCount |-> es.processedCount,
     successCount |-> es.successCount,
     errorCount |-> es.errorCount,
     totalUrls |-> Len(es.currentBatch),
     activeTabs |-> Cardinality(es.activeTabs),
     startTime |-> es.processingStartTime]

\* handleGetProcessingStatus(sendResponse)
handleGetProcessingStatus ==
    /\ response' = [action |-> "getProcessingStatus", success |-> TRUE,
                    error |-> NULL, data |-> ProcessingStatus(extensionState)]
    /\ UNCHANGED <<extensionState, batch, started, openTabs, statistics,
                   lastProgress, stopRequested>>
    /\ UNCHANGED <<errorEvents, extractor, backend>>

\* ------------------------------------------------------------- the browser

\* The user closes a tab the orchestrator opened; the chrome.tabs.onRemoved
\* listener untracks it.  (For a tab the worker itself removes, the listener
\* deletes the id closeTab deletes.)
tabsOnRemoved(tab) ==
    /\ tab \in openTabs
    /\ openTabs' = openTabs \ {tab}
    /\ extensionState' = [extensionState EXCEPT !.activeTabs = @ \ {tab}]
    /\ response' = NoResponse
    /\ UNCHANGED <<batch, started, statistics, lastProgress, stopRequested>>
    /\ UNCHANGED <<errorEvents, extractor, backend>>

\* ------------------------------------------------- the steps of one batch

\* tab = await chrome.tabs.create(...) resolves: the tab is open, it is
\* tracked, and waitForTabComplete is awaited.
TabCreated(b) ==
    /\ batch[b].pc = "creating"
    /\ LET tab == TabId(b, batch[b].i, batch[b].retryCount)
       IN  /\ openTabs' = openTabs \cup {tab}
           /\ extensionState' = [extensionState EXCEPT !.activeTabs = @ \cup {tab}]
           /\ batch' = [batch EXCEPT ![b].tab = tab, ![b].pc = "loading"]
    /\ response' = NoResponse
    /\ UNCHANGED <<started, statistics, lastProgress, stopRequested>>
    /\ UNCHANGED <<errorEvents, extractor, backend>>

\* What chrome.tabs.create rejects with.
TabCreateError == <<"Tabs", "cannot", "be", "created", "right", "now">>

\* chrome.tabs.create rejects: tab keeps the previous attempt's value.
TabCreateFailed(b) ==
    /\ batch[b].pc = "creating"
    /\ Commit(b, Catch(extensionState, batch[b], TabCreateError))

\* CONFIG.TAB_TIMEOUT, and the delay of setTimeout(checkTabStatus, 500)
TAB_TIMEOUT == 45000
POLL_INTERVAL == 500

\* const maxChecks = timeout / 500
maxChecks == TAB_TIMEOUT \div POLL_INTERVAL

\* What waitForTabComplete rejects with: 'Tab loading timeout' (its timer),
\* 'Tab loading timeout - max checks reached' and 'Tab not found: ...'.
TabLoadTimeout == <<"Tab", "loading", "timeout">>
TabLoadMaxChecks == <<"Tab", "loading", "timeout", "-", "max", "checks", "reached">>
TabNotFound == <<"Tab", "not", "found:", "No", "tab", "with", "id">>

\* polls is what the chrome.tabs.get callbacks of checkTabStatus that run
\* before the timer fires find, one after the other: the tab's status, or
\* "gone" (chrome.runtime.lastError).  The check that settles the promise is
\* the first that does not find the tab loading or that is check number
\* maxChecks (0: none, the timer settles it).
SettlingCheck(polls) ==
    LET settling == {k \in 1..Len(polls) : polls[k] # "loading" \/ k >= maxChecks}
    IN  IF settling = {} THEN 0
        ELSE CHOOSE k \in settling : \A j \in settling : k <= j

\* What the settling check finds ("timer": the timer fired first).
SettlingPoll(polls) ==
    IF SettlingCheck(polls) = 0 THEN "timer" ELSE polls[SettlingCheck(polls)]

\* A load wait that takes a tab that is gone for a tab that has loaded.
waitForTabCompleteOrGone(polls) ==
    CASE SettlingPoll(polls) = "timer" -> TabLoadTimeout
      [] SettlingPoll(polls) = "gone" -> NoError
      [] SettlingPoll(polls) = "complete" -> NoError
      [] OTHER -> TabLoadMaxChecks

\* waitForTabComplete(tabId, timeout): the error the promise rejects with,
\* NoError if it resolves.
waitForTabComplete(polls) ==
    CASE SettlingPoll(polls) = "timer" -> TabLoadTimeout
      [] SettlingPoll(polls) = "gone" -> TabNotFound
      [] SettlingPoll(polls) = "complete" -> NoError
      [] OTHER -> TabLoadMaxChecks

\* n polls that find the tab loading.
StillLoading(n) == [k \in 1..n |-> "loading"]

\* How many polls find the tab loading before the one that settles the
\* promise: none, one, and around maxChecks.
PollCounts == {0, 1, maxChecks - 1, maxChecks}

\* What the polls of one load wait find.
PollRuns ==
    {StillLoading(n) \o last : n \in PollCounts, last \in {<<>>, <<"complete">>, <<"gone">>}}

\* The poll that settles the promise finds what the browser holds: a tab
\* that is open, or no tab.
Observed(tab, polls) ==
    LET last == SettlingPoll(polls)
    IN  /\ last \in {"loading", "complete"} => tab \in openTabs
        /\ last = "gone" => tab \notin openTabs

\* waitForTabComplete resolves (status 'complete'); wait(5000) is awaited.
TabComplete(b, polls) ==
    /\ batch[b].pc = "loading"
    /\ Observed(batch[b].tab, polls)
    /\ waitForTabComplete(polls) = NoError
    /\ Commit(b, Task(extensionState, [batch[b] EXCEPT !.pc = "settling"],
                      {}, FALSE, NoProgress))

\* waitForTabComplete rejects: the catch block of processSingleUrl.
TabLoadFailed(b, polls) ==
    /\ batch[b].pc = "loading"
    /\ Observed(batch[b].tab, polls)
    /\ waitForTabComplete(polls) # NoError
    /\ Commit(b, Catch(extensionState, batch[b], waitForTabComplete(polls)))

\* wait(5000) is over; extractProfileFromTab is awaited.
SettleDone(b) ==
    /\ batch[b].pc = "settling"
    /\ Commit(b, Task(extensionState, [batch[b] EXCEPT !.pc = "extracting"],
                      {}, FALSE, NoProgress))

\* if (!profileData || !profileData.name)
NoNameFound(profileData) == Empty(profileData.name)

\* extractProfileFromTab returns the record the extractor made of the tab's
\* document, and the record has a name; saveProfileToBackend sends the
\* create-profile request with it and its fetch is awaited.
ProfileExtracted(b, pg) ==
    /\ batch[b].pc = "extracting"
    /\ batch[b].tab \in openTabs
    /\ ~NoNameFound(extractLinkedInProfileAdvanced(pg))
    /\ Commit(b, Task(extensionState,
                      [batch[b] EXCEPT !.pc = "saving", !.saveRequests = @ + 1,
                                       !.profileStatus =
                                           extractLinkedInProfileAdvanced(pg).extractionStatus],
                      {}, FALSE, NoProgress))

\* new Error('Failed to extract profile data - no name found') of
\* processSingleUrl, and new Error('No data returned from extraction script')
\* of extractProfileFromTab (which rethrows what executeScript throws, too).
NoNameFoundError == <<"Failed", "to", "extract", "profile", "data", "-", "no", "name", "found">>
NoDataReturnedError == <<"No", "data", "returned", "from", "extraction", "script">>
ExtractionErrors == {NoNameFoundError, NoDataReturnedError}

\* extractProfileFromTab throws (the tab is gone, the script failed, no
\* result), or its record has no name.
ExtractionFailed(b, error) ==
    /\ batch[b].pc = "extracting"
    /\ Commit(b, Catch(extensionState, batch[b], error))

\* What the backend answers to POST /profiles (201 created, 409 conflict,
\* 400 invalid, 500 failed), and a fetch that throws.
BackendReplies == {"created", "conflict", "invalid", "failed", "unreachable"}

\* response.ok and result.success of a reply.
ReplyOk(reply) == reply = "created"
ReplySuccess(reply) == reply = "created"

\* result.message of a reply.
ReplyMessage(reply) ==
    CASE reply = "created" -> <<"Profile", "created", "successfully">>
      [] reply = "conflict" ->
            <<"Profile", "with", "this", "LinkedIn", "URL", "already", "exists">>
      [] reply = "invalid" -> <<"Validation", "failed">>
      [] reply = "failed" -> <<"Failed", "to", "create", "profile">>
      [] OTHER -> NoError

\* saveProfileToBackend(profileData): the reply of a success, result.message
\* of any other reply, or error.message of the fetch that threw.  (Every
\* reply of the backend has a message, so `HTTP ${response.status}` is never
\* used.)
saveProfileToBackend(reply) ==
    IF reply = "unreachable"
    THEN [success |-> FALSE, error |-> <<"Failed", "to", "fetch">>]
    ELSE IF ReplyOk(reply) /\ ReplySuccess(reply)
         THEN [success |-> TRUE, error |-> NoError]
         ELSE [success |-> FALSE, error |-> ReplyMessage(reply)]

\* saveResult.error
SaveError(reply) == saveProfileToBackend(reply).error

\* message.includes(words)
Includes(message, words) ==
    \E k \in 0..(Len(message) - Len(words)) :
        \A j \in 1..Len(words) : message[k + j] = words[j]

\* A test that takes every failed save for a duplicate.
IsDuplicateWheneverError(error) == error # NoError

\* saveResult.error && saveResult.error.includes('already exists')
IsDuplicate(error) == error # NoError /\ Includes(error, <<"already", "exists">>)

\* A processSingleUrl that throws when the save failed, so that its catch
\* block retries.
ProfileSavedOrThrown(b, reply) ==
    /\ batch[b].pc = "saving"
    /\ LET saveResult == saveProfileToBackend(reply)
       IN  IF ~saveResult.success
           THEN Commit(b, Catch(extensionState, batch[b], saveResult.error))
           ELSE Commit(b, Task(extensionState,
                              [batch[b] EXCEPT !.pc = "closing",
                                               !.after = [cont |-> "return", success |-> TRUE,
                                                          isDuplicate |-> FALSE,
                                                          error |-> NoError]],
                              {batch[b].tab}, FALSE, NoProgress))

\* saveProfileToBackend resolves; on either branch closeTab is awaited
\* before processSingleUrl returns.
ProfileSaved(b, reply) ==
    /\ batch[b].pc = "saving"
    /\ LET saveResult == saveProfileToBackend(reply)
           result == IF ~saveResult.success
                     THEN [cont |-> "return", success |-> FALSE,
                           isDuplicate |-> IsDuplicate(saveResult.error),
                           error |-> saveResult.error]
                     ELSE [cont |-> "return", success |-> TRUE,
                           isDuplicate |-> FALSE, error |-> NoError]
       IN  Commit(b, Task(extensionState,
                          [batch[b] EXCEPT !.pc = "closing", !.after = result],
                          {batch[b].tab}, FALSE, NoProgress))

\* closeTab after its await (on both of its branches): the tab is untracked;
\* then processSingleUrl returns, or its catch block goes on.
TabClosed(b) ==
    /\ batch[b].pc = "closing"
    /\ LET es == [extensionState EXCEPT !.activeTabs = @ \ {batch[b].tab}]
       IN  IF batch[b].after.cont = "return"
           THEN Commit(b, AfterProcessSingleUrl(es, batch[b], batch[b].after))
           ELSE Commit(b, CatchAfterCleanup(es, batch[b]))

\* wait(2000) is over: the next attempt calls chrome.tabs.create.
BackoffDone(b) ==
    /\ batch[b].pc = "backoff"
    /\ Commit(b, Task(extensionState, [batch[b] EXCEPT !.pc = "creating"],
                      {}, FALSE, NoProgress))

\* if (!extensionState.isProcessing) break
StoppedByUser(es) == ~es.isProcessing

\* wait(CONFIG.PROCESSING_DELAY) is over: the cancellation check, then the
\* next iteration.
ThrottleDone(b) ==
    /\ batch[b].pc = "throttle"
    /\ IF StoppedByUser(extensionState)
       THEN Commit(b, ExitLoop(extensionState, batch[b]))
       ELSE Commit(b, BeginIteration(extensionState, batch[b], batch[b].i + 1))

\* x += n on a stored field: undefined + n and NaN + n are NaN.
PlusEquals(x, n) == IF x < 0 THEN NaN ELSE x + n

\* updateStatistics: the four += on the stored statistics.
AddToStatistics(stats, summary) ==
    [totalProcessed |-> PlusEquals(stats.totalProcessed, summary.total),
     totalSuccess |-> PlusEquals(stats.totalSuccess, summary.success),
     totalErrors |-> PlusEquals(stats.totalErrors, summary.errors),
     totalDuplicates |-> PlusEquals(stats.totalDuplicates, summary.duplicates)]

\* chrome.storage.local.get resolves in updateStatistics: the sums are
\* computed and chrome.storage.local.set is awaited.
StatisticsRead(b) ==
    /\ batch[b].pc = "statsGet"
    /\ batch' = [batch EXCEPT ![b].stats = AddToStatistics(statistics, batch[b].results.summary),
                              ![b].pc = "statsSet"]
    /\ response' = NoResponse
    /\ UNCHANGED <<extensionState, started, openTabs, statistics, lastProgress,
                   stopRequested>>
    /\ UNCHANGED <<errorEvents, extractor, backend>>

\* chrome.storage.local.set resolves; handleStartBatchProcessing resets the
\* state and answers the start request with the results.  The call chain is
\* over and its locals are gone.
BatchCompleted(b) ==
    /\ batch[b].pc = "statsSet"
    /\ statistics' = batch[b].stats
    /\ extensionState' = resetState(extensionState)
    /\ batch' = [batch EXCEPT ![b] = [IdleBatch EXCEPT !.pc = "done"]]
    /\ response' = [action |-> "startBatchProcessing", success |-> TRUE,
                    error |-> NULL, data |-> batch[b].results.summary]
    /\ UNCHANGED <<started, openTabs, lastProgress, stopRequested>>
    /\ UNCHANGED <<errorEvents, extractor, backend>>

\* The replies the saves of overlapping batches draw from: one reply for each
\* path through saveProfileToBackend (NextSingle draws from all of them).
OverlapReplies == {"created", "conflict", "unreachable"}

\* The polls the load waits of overlapping batches draw from: the first poll
\* settles the promise, or the timer does.
OverlapPolls == {<<>>, <<"complete">>, <<"gone">>}

Next ==
    \/ \E urls \in UrlLists : handleStartBatchProcessing(urls)
    \/ handleStopBatchProcessing
    \/ handleGetProcessingStatus
    \/ \E tab \in openTabs : tabsOnRemoved(tab)
    \/ \E b \in Batches :
        \/ TabCreated(b)
        \/ TabCreateFailed(b)
        \/ \E polls \in OverlapPolls : TabComplete(b, polls)
        \/ \E polls \in OverlapPolls : TabLoadFailed(b, polls)
        \/ SettleDone(b)
        \/ ProfileExtracted(b, ProfilePage)
        \/ ExtractionFailed(b, NoNameFoundError)
        \/ \E reply \in OverlapReplies : ProfileSaved(b, reply)
        \/ TabClosed(b)
        \/ BackoffDone(b)
        \/ ThrottleDone(b)
        \/ StatisticsRead(b)
        \/ BatchCompleted(b)

Spec == Init /\ [][Next]_vars

\* A start request that is accepted only if none was accepted before.
handleOnlyStart(urls) ==
    /\ started = 0 \/ AlreadyRunning(extensionState) \/ NoUrls(urls)
    /\ handleStartBatchProcessing(urls)

\* The same worker when at most one start request is accepted, with every
\* reply of the backend, every document and every run of polls.  Each of its behaviours is a behaviour of the worker.
NextSingle ==
    \/ \E urls \in UrlLists : handleOnlyStart(urls)
    \/ handleStopBatchProcessing
    \/ handleGetProcessingStatus
    \/ \E tab \in openTabs : tabsOnRemoved(tab)
    \/ \E b \in Batches :
        \/ TabCreated(b)
        \/ TabCreateFailed(b)
        \/ \E polls \in PollRuns : TabComplete(b, polls)
        \/ \E polls \in PollRuns : TabLoadFailed(b, polls)
        \/ SettleDone(b)
        \/ \E pg \in WorkerPages : ProfileExtracted(b, pg)
        \/ \E error \in ExtractionErrors : ExtractionFailed(b, error)
        \/ \E reply \in BackendReplies : ProfileSaved(b, reply)
        \/ TabClosed(b)
        \/ BackoffDone(b)
        \/ ThrottleDone(b)
        \/ StatisticsRead(b)
        \/ BatchCompleted(b)

SpecSingle == Init /\ [][NextSingle]_vars

\* ------------------------------------------------------------------ claims

\* The tabs batch b opened (their ids carry b) that are open in the browser,
\* and those that are open or tracked.
OpenTabsOf(b) == {tab \in openTabs : tab[1] = b}
OpenOrTrackedTabsOf(b) == {tab \in openTabs \cup extensionState.activeTabs : tab[1] = b}

\* A tab operation of batch b is in flight: the load wait, the settle delay,
\* the extraction or the save.
TabInFlight(b) == batch[b].pc \in {"loading", "settling", "extracting", "saving"}

\* The number of URLs of batch b that have an outcome.
Processed(b) ==
    Len(batch[b].results.successful) + Len(batch[b].results.failed)
        + Len(batch[b].results.skipped)

\* The loop of batch b has exited and its results are about to be reported.
LoopExited(b) == batch[b].pc \in {"statsGet", "statsSet"}

\* C1: at most one orchestrator-opened tab is tracked as open in every
\* reachable state: the size of extensionState.activeTabs is <= 1.
C1_SingleTab == Cardinality(extensionState.activeTabs) <= 1

\* C2: at most one batch is running: never are two processBatchUrls loops
\* both still executing.
C2_SingleRunningBatch == Cardinality(RunningLoops) <= 1

\* C3: a startBatchProcessing request handled while isProcessing is true is
\* answered success=false with the already-in-progress error, opens no tab
\* and leaves every field of extensionState (and every batch) unchanged.
C3_RejectedWhileRunning ==
    [][(extensionState.isProcessing
            /\ \E urls \in UrlLists : handleStartBatchProcessing(urls))
        => /\ response'.action = "startBatchProcessing"
           /\ response'.success = FALSE
           /\ response'.error = "Batch processing already in progress"
           /\ extensionState' = extensionState
           /\ openTabs' = openTabs
           /\ batch' = batch
           /\ started' = started]_vars

\* C3 witness: a start request was just rejected while a batch loop was
\* executing with a tab open.
C3_Witness ==
    /\ response.action = "startBatchProcessing"
    /\ response.error = "Batch processing already in progress"
    /\ extensionState.isProcessing
    /\ RunningLoops # {}
    /\ extensionState.activeTabs # {}

\* C4: every tab processSingleUrl created is closed and untracked once
\* processSingleUrl has moved on to the next attempt or returned: a tab of
\* batch b is open or tracked only while it is the tab of the attempt in
\* progress.
C4_TabCleanup ==
    \A b \in Batches :
        \A tab \in OpenOrTrackedTabsOf(b) :
            /\ batch[b].pc \in {"loading", "settling", "extracting", "saving", "closing"}
            /\ tab = batch[b].tab

\* C5: when the loop of a batch cancelled by stopBatchProcessing exits, no
\* tab is tracked and every tab the batch opened is closed.
C5_NoTabsAfterCancel ==
    [][\A b \in stopRequested :
        (LoopRunning(b) /\ LoopExited(b)')
            => /\ extensionState'.activeTabs = {}
               /\ OpenTabsOf(b)' = {}]_vars

\* C6: once a stop request was handled while the loop of batch b was
\* executing, b never starts another URL: its loop index never changes again.
C6_NoUrlAfterStop ==
    [][\A b \in stopRequested :
        (LoopRunning(b) /\ LoopRunning(b)') => batch'[b].i = batch[b].i]_vars

\* C7: the summary of a batch cancelled after k of its n URLs accounts for k
\* URLs only: success + errors + duplicates = k and total = k.
C7_CancelledSummary ==
    \A b \in stopRequested :
        LoopExited(b)
            => /\ batch[b].results.summary.success + batch[b].results.summary.errors
                    + batch[b].results.summary.duplicates = Processed(b)
               /\ batch[b].results.summary.total = Processed(b)

\* C8: cancellation is cooperative: handling a stop request closes no tab
\* whose load wait, settle delay, extraction or save is in flight.
C8_StopClosesNoTabInFlight ==
    [][response'.action = "stopBatchProcessing"
        => \A b \in Batches :
            (TabInFlight(b) /\ batch[b].tab \in openTabs) => batch[b].tab \in openTabs']_vars

\* C9: a batch for which no stop was requested gives every URL exactly one
\* outcome: when its loop exits, total = n, success + errors + duplicates = n
\* and the three lists have exactly those lengths.
C9_EveryUrlOneOutcome ==
    \A b \in Batches \ stopRequested :
        LoopExited(b)
            => /\ batch[b].results.summary.total = Len(batch[b].urls)
               /\ batch[b].results.summary.success + batch[b].results.summary.errors
                    + batch[b].results.summary.duplicates = Len(batch[b].urls)
               /\ Len(batch[b].results.successful) = batch[b].results.summary.success
               /\ Len(batch[b].results.failed) = batch[b].results.summary.errors
               /\ Len(batch[b].results.skipped) = batch[b].results.summary.duplicates

\* ---------------------------------------------------------------- ordering

\* The length of the URL list the ordering specification starts batches with.
OrderUrls == 3

\* The same worker under a narrower environment: every start message carries
\* the list of OrderUrls URLs (or none), every tab loads, every extraction
\* finds a name and every save creates the record.  Each of its behaviours is
\* a behaviour of the worker.
NextOrder ==
    \/ \E urls \in {<<>>, [k \in 1..OrderUrls |-> k]} : handleStartBatchProcessing(urls)
    \/ handleStopBatchProcessing
    \/ \E b \in Batches :
        \/ TabCreated(b)
        \/ TabComplete(b, <<"complete">>)
        \/ SettleDone(b)
        \/ ProfileExtracted(b, ProfilePage)
        \/ ProfileSaved(b, "created")
        \/ TabClosed(b)
        \/ ThrottleDone(b)
        \/ StatisticsRead(b)
        \/ BatchCompleted(b)

SpecOrder == Init /\ [][NextOrder]_vars

\* The urls of the entries of a results list.
UrlsOf(list) == [j \in 1..Len(list) |-> list[j].url]

\* s is strictly increasing.
Increasing(s) == \A j \in 1..(Len(s) - 1) : s[j] < s[j + 1]

\* URL i+1 of batch b is not opened before URL i has its outcome: while
\* URL i is being processed exactly the i URLs before it have one.
InInputOrder(b) ==
    /\ batch[b].pc \in {"creating", "loading", "settling", "extracting", "saving",
                        "closing", "backoff"} => Processed(b) = batch[b].i
    /\ batch[b].pc = "throttle" => Processed(b) = batch[b].i + 1

\* The outcomes of batch b are recorded in input order (the URLs of a list
\* are numbered in input order).
RecordedInOrder(b) ==
    /\ Increasing(UrlsOf(batch[b].results.successful))
    /\ Increasing(UrlsOf(batch[b].results.failed))
    /\ Increasing(UrlsOf(batch[b].results.skipped))

\* C10: URLs are processed strictly in input order, outcomes are recorded in
\* that order, and the processed count of the progressUpdate events the popup
\* receives never decreases (it restarts only with a newly accepted batch).
C10_Ordering ==
    [][/\ \A b \in Batches : InInputOrder(b)' /\ RecordedInOrder(b)'
       /\ (lastProgress'.processed >= lastProgress.processed \/ started' # started)]_vars

\* The part of C10 that is about one batch alone.
C10_PerBatchOrder == \A b \in Batches : InInputOrder(b) /\ RecordedInOrder(b)

\* ------------------------------------------------------------------ retries

\* processSingleUrl of batch b is inside an attempt (the body of its while
\* loop, up to the save).
InAttempt(b) == batch[b].pc \in {"creating", "loading", "settling", "extracting", "saving"}

\* The tabs of the earlier attempts batch b made for the URL it is processing.
EarlierAttemptTabs(b) == {TabId(b, batch[b].i, r) : r \in 0..(batch[b].retryCount - 1)}

\* The part of C11 that is about the number of attempts and the backoff wait:
\* every tab is the tab of an attempt below the ceiling, an attempt is made
\* only while retryCount < MAX_RETRIES, and the backoff wait is entered only
\* after a failed attempt that is not the last one.
C11_AttemptsBounded ==
    /\ \A tab \in openTabs \cup extensionState.activeTabs : tab[3] < MAX_RETRIES
    /\ \A b \in Batches :
        /\ InAttempt(b) => batch[b].retryCount < MAX_RETRIES
        /\ batch[b].pc = "backoff"
              => batch[b].retryCount > 0 /\ batch[b].retryCount < MAX_RETRIES

\* C11: bounded retry: for each URL at most MAX_RETRIES tabs are opened, the
\* backoff wait occurs only between two attempts, and a further attempt (the
\* backoff wait before it included) is made only once the tab of every
\* earlier attempt is closed.
C11_BoundedRetry ==
    /\ C11_AttemptsBounded
    /\ \A b \in Batches :
        batch[b].pc \in {"backoff", "creating"}
            => EarlierAttemptTabs(b) \cap openTabs = {}

\* ----------------------------------------------------------------- timeouts

\* The same worker under a narrower environment: no tab ever reaches status
\* 'complete' (every load wait ends by the timeout), nobody closes a tab and
\* no stop is requested.  Each of its behaviours is a behaviour of the worker.
NextTimeout ==
    \/ \E urls \in UrlLists : handleStartBatchProcessing(urls)
    \/ handleGetProcessingStatus
    \/ \E b \in Batches :
        \/ TabCreated(b)
        \/ \E n \in PollCounts : TabLoadFailed(b, StillLoading(n))
        \/ TabClosed(b)
        \/ BackoffDone(b)
        \/ ThrottleDone(b)
        \/ StatisticsRead(b)
        \/ BatchCompleted(b)

SpecTimeout == Init /\ [][NextTimeout]_vars

\* The loop of batch b is done with the k-th URL of its list.
UrlDone(b, k) ==
    \/ batch[b].pc \in LoopPcs \ {"throttle"} /\ k - 1 < batch[b].i
    \/ batch[b].pc \in {"throttle", "statsGet", "statsSet"} /\ k - 1 <= batch[b].i

\* The number of entries the results of batch b hold for url.
EntriesFor(list, url) == Cardinality({j \in 1..Len(list) : list[j].url = url})

OutcomesOf(b, url) ==
    EntriesFor(batch[b].results.successful, url)
        + EntriesFor(batch[b].results.failed, url)
        + EntriesFor(batch[b].results.skipped, url)

\* The part of C12 that is about the number of outcomes and the tabs: a URL
\* whose every attempt timed out has exactly one outcome, a failed one, and
\* none of its tabs is tracked or open.
C12_OneErrorNoTab ==
    \A b \in Batches : \A k \in 1..Len(batch[b].urls) :
        UrlDone(b, k)
            => /\ OutcomesOf(b, batch[b].urls[k]) = 1
               /\ EntriesFor(batch[b].results.failed, batch[b].urls[k]) = 1
               /\ \A tab \in openTabs \cup extensionState.activeTabs :
                    ~(tab[1] = b /\ tab[2] = k - 1)

\* C12: a URL whose tab never reaches status 'complete' on any attempt gets
\* exactly one outcome, an Error whose message is the failure message of the
\* last attempt (the tab-loading timeout), and none of its tabs stays in
\* activeTabs.
C12_TimeoutOutcome ==
    /\ C12_OneErrorNoTab
    /\ \A b \in Batches : \A j \in 1..Len(batch[b].results.failed) :
        batch[b].results.failed[j].error = TabLoadTimeout

\* ----------------------------------------------------------- classification

\* The outcome the contract gives a save: Created for a 2xx reply with the
\* success flag, Duplicate for the reply that reports the URL as existing,
\* Error for every other reply and for a request that failed.
ExpectedOutcome(reply) ==
    IF ReplyOk(reply) /\ ReplySuccess(reply) THEN "success"
    ELSE IF reply = "conflict" THEN "duplicate"
    ELSE "error"

\* The results list an outcome is recorded in.
ListOf(results, kind) ==
    CASE kind = "success" -> results.successful
      [] kind = "duplicate" -> results.skipped
      [] OTHER -> results.failed

\* processSingleUrl of batch b is returning the result of a save.
ReturningSaveResult(b) ==
    /\ batch[b].pc = "closing"
    /\ batch[b].after.cont = "return"
    /\ batch[b].after.error # FailedAfterRetries.error

\* C13: the result of a save is classified Created exactly for a 2xx reply
\* with the success flag, Duplicate exactly for the already-exists reply and
\* Error for every other reply or failure; when processSingleUrl returns it,
\* exactly one entry is recorded for the URL, in the list of that outcome.
C13_Classification ==
    [][\A b \in Batches :
        /\ \A reply \in BackendReplies :
             ProfileSaved(b, reply)
                => /\ ReturningSaveResult(b)'
                   /\ ResultKind(batch'[b].after) = ExpectedOutcome(reply)
        /\ (ReturningSaveResult(b) /\ batch'[b] # batch[b])
             => LET url == batch[b].urls[batch[b].i + 1]
                    kind == ResultKind(batch[b].after)
                IN  /\ OutcomesOf(b, url) = 0
                    /\ OutcomesOf(b, url)' = 1
                    /\ EntriesFor(ListOf(batch'[b].results, kind), url) = 1]_vars

\* C13 witness: a batch has
\* recorded a Created outcome and an Error outcome that came from a save.
C13_Witness ==
    \E b \in Batches :
        /\ Len(batch[b].results.successful) = 1
        /\ Len(batch[b].results.failed) = 1
        /\ batch[b].results.failed[1].error = ReplyMessage("failed")

\* --------------------------------------------------------------- API client

\* C14: the API client never retries: at most one create-profile request is
\* sent for the URL a batch is processing, and once it was sent no further
\* tab attempt is made for that URL (no create, load, settle, extraction or
\* backoff, and no catch block): the save is awaited, the tab is closed and
\* processSingleUrl returns.
C14_NoSaveRetry ==
    \A b \in Batches :
        /\ batch[b].saveRequests <= 1
        /\ batch[b].saveRequests = 1
            => /\ batch[b].pc \in {"saving", "closing", "throttle", "statsGet", "statsSet"}
               /\ batch[b].pc = "closing" => batch[b].after.cont = "return"

\* C14 witness: on its second tab attempt for a URL a batch sent one request,
\* the save failed, and the URL has its Error outcome with no further attempt.
C14_Witness ==
    \E b \in Batches :
        /\ batch[b].pc = "throttle"
        /\ batch[b].retryCount = 1
        /\ batch[b].saveRequests = 1
        /\ Len(batch[b].results.failed) = 1
        /\ batch[b].results.failed[1].error = SaveError("unreachable")

\* ------------------------------------------------------- minimum batch size

\* const MIN_URLS_REQUIRED = 3 (popup.js): the minimum the popup's button
\* handler asks for before it sends startBatchProcessing.
MIN_URLS_REQUIRED == 3

\* C15: a startBatchProcessing message with fewer than MIN_URLS_REQUIRED URLs
\* that reaches the background handler is rejected: it is answered
\* success=false, no batch is started and no tab is opened or about to be.
C15_MinimumUrls ==
    [][\A urls \in UrlLists :
        (Len(urls) < MIN_URLS_REQUIRED /\ handleStartBatchProcessing(urls))
            => /\ response'.action = "startBatchProcessing"
               /\ response'.success = FALSE
               /\ batch' = batch
               /\ started' = started
               /\ openTabs' = openTabs]_vars

\* ------------------------------------------------------------- the backend
\* The Express routes of the backend (server.js) over the Profile model.  A
\* route handler is a call chain like a batch of the worker: one action is
\* one task, from the request or from the await that settled to the next
\* await or to the response.  A url is the sequence of its parts.

\* The largest number of route handlers in flight at once.
MaxRequests == 2
\* The longest profiles array of a batch request, the arrays of MAX_BATCH
\* and MAX_BATCH + 1 items apart.
MaxItems == 2
\* profiles.length > 50
MAX_BATCH == 50

\* The user names of the profile URLs clients submit.
Paths == {"a", "b"}

\* 'https://linkedin.com/in/<p>', 'linkedin.com/in/<p>' and a URL that is no
\* LinkedIn profile URL.
FullUrl(p) == <<"https://", "linkedin.com/in/", p>>
BareUrl(p) == <<"linkedin.com/in/", p>>
OtherUrl == <<"https://", "example.com/", "a">>

\* No url (the field is missing or empty).
NoUrl == <<>>

\* The urls requests carry: both forms of one profile URL, a second profile
\* URL, a URL of another site and none.
SubmittedUrls == {FullUrl("a"), BareUrl("a"), FullUrl("b"), OtherUrl, NoUrl}

\* req.body of POST /api/profiles, and an item of a profiles array: whether
\* it has a name, and its url.
Bodies ==
    {[name |-> TRUE, url |-> u] : u \in SubmittedUrls}
        \cup {[name |-> FALSE, url |-> FullUrl("a")]}

\* The items the profiles arrays are made of.
Items ==
    {[name |-> TRUE, url |-> u] : u \in {FullUrl("a"), BareUrl("a"), OtherUrl}}
        \cup {[name |-> FALSE, url |-> FullUrl("a")]}

\* An array of n items that all carry the same profile.
SameItems(n) == [k \in 1..n |-> [name |-> TRUE, url |-> FullUrl("a")]]

\* req.body.profiles of POST /api/profiles/batch.
ProfileArrays ==
    UNION {[1..n -> Items] : n \in 0..MaxItems}
        \cup {SameItems(MAX_BATCH), SameItems(MAX_BATCH + 1)}

\* req.params.id of PUT /api/profiles/:id: the ids of the rows the table can
\* hold (a row for each profile URL).
ProfileIds == 1..Cardinality(Paths)

\* url.startsWith('http')
StartsWithHttp(url) == Len(url) > 0 /\ url[1] = "https://"

\* url.includes('linkedin.com/in/')
IsLinkedInUrl(url) == Includes(url, <<"linkedin.com/in/">>)

\* hooks.beforeValidate of the Profile model
beforeValidate(url) ==
    IF url # NoUrl /\ ~StartsWithHttp(url)
    THEN IF IsLinkedInUrl(url) THEN <<"https://">> \o url ELSE url
    ELSE url

\* A table without the unique index on url.
NoUniqueIndex(rows, id, url) == FALSE

\* The unique index on url: a row other than the row id has this url.
UniqueViolation(rows, id, url) == \E p \in rows : p.id # id /\ p.url = url

\* What validating and writing the row id (0: a new row) with this url ends
\* in: the model's validators run after its beforeValidate hook, then the
\* table checks its unique index.
WriteOutcome(rows, id, url) ==
    IF ~IsLinkedInUrl(beforeValidate(url)) THEN "SequelizeValidationError"
    ELSE IF UniqueViolation(rows, id, beforeValidate(url))
         THEN "SequelizeUniqueConstraintError"
         ELSE "written"

\* Profile.findOne({ where: { url } }): the rows with exactly this url.
findOne(rows, url) == {p \in rows : p.url = url}

\* Profile.findByPk(id)
findByPk(rows, id) == {p \in rows : p.id = id}

\* The locals of a route handler in flight.
NewRequest ==
    [op |-> NULL, pc |-> NULL, url |-> NoUrl, id |-> 0, profiles |-> <<>>, i |-> 0,
     created |-> <<>>, skipped |-> <<>>, errors |-> <<>>]

\* res.status(status).json(...) of a route: the status, the url of the
\* request, and the id of the record the body carries (0: none).
Reply(op, status, url, id) ==
    [NoReply EXCEPT !.op = op, !.status = status, !.url = url, !.id = id]

\* A handler in flight goes on as next; a handler responds and is over.
Continue(req, next) ==
    /\ requests' = (requests (-) SetToBag({req})) (+) SetToBag({next})
    /\ res' = NoReply

Respond(req, r) ==
    /\ requests' = requests (-) SetToBag({req})
    /\ res' = r

\* A profiles array longer than MaxItems is processed with no other handler
\* in flight.
Exclusive(profiles) == Len(profiles) > MaxItems

\* A request arrives while fewer than MaxRequests handlers are in flight.
Accepting ==
    /\ BagCardinality(requests) < MaxRequests
    /\ \A req \in BagToSet(requests) : ~Exclusive(req.profiles)

\* if (!profileData.name || !profileData.url)
MissingFields(body) == ~body.name \/ body.url = NoUrl

\* app.post('/api/profiles'), up to the await of Profile.findOne.
ReceiveCreate(body) ==
    /\ Accepting
    /\ IF MissingFields(body) \/ ~IsLinkedInUrl(body.url)
       THEN Respond(NewRequest, Reply("create", 400, body.url, 0))
       ELSE Continue(NewRequest,
                     [NewRequest EXCEPT !.op = "create", !.pc = "findOne", !.url = body.url])
    /\ UNCHANGED <<store, nextId>>
    /\ UNCHANGED <<extension, limiter>>

\* Profile.findOne resolves: 409 with the existing record, or Profile.create
\* is awaited.
CreateFound(req) ==
    /\ req.op = "create" /\ req.pc = "findOne"
    /\ IF findOne(store, req.url) # {}
       THEN Respond(req, Reply("create", 409, req.url,
                               (CHOOSE p \in findOne(store, req.url) : TRUE).id))
       ELSE Continue(req, [req EXCEPT !.pc = "create"])
    /\ UNCHANGED <<store, nextId>>
    /\ UNCHANGED <<extension, limiter>>

\* Profile.create settles: 201 with the new record, or the catch block of
\* the route: 400 for a SequelizeValidationError, 500 for any other error.
CreateInserted(req) ==
    /\ req.op = "create" /\ req.pc = "create"
    /\ LET outcome == WriteOutcome(store, 0, req.url)
       IN  CASE outcome = "written" ->
                  /\ store' = store \cup {[id |-> nextId, url |-> beforeValidate(req.url)]}
                  /\ nextId' = nextId + 1
                  /\ Respond(req, Reply("create", 201, req.url, nextId))
             [] outcome = "SequelizeValidationError" ->
                  /\ Respond(req, Reply("create", 400, req.url, 0))
                  /\ UNCHANGED <<store, nextId>>
             [] OTHER ->
                  /\ Respond(req, Reply("create", 500, req.url, 0))
                  /\ UNCHANGED <<store, nextId>>
    /\ UNCHANGED <<extension, limiter>>

\* app.put('/api/profiles/:id'), up to the await of Profile.findByPk; a
\* body without url is NoUrl.
ReceiveUpdate(id, url) ==
    /\ Accepting
    /\ Continue(NewRequest,
                [NewRequest EXCEPT !.op = "update", !.pc = "findByPk", !.id = id, !.url = url])
    /\ UNCHANGED <<store, nextId>>
    /\ UNCHANGED <<extension, limiter>>

\* Profile.findByPk resolves: 404, or profile.update is awaited.
UpdateFound(req) ==
    /\ req.op = "update" /\ req.pc = "findByPk"
    /\ IF findByPk(store, req.id) = {}
       THEN Respond(req, Reply("update", 404, req.url, 0))
       ELSE Continue(req, [req EXCEPT !.pc = "update"])
    /\ UNCHANGED <<store, nextId>>
    /\ UNCHANGED <<extension, limiter>>

\* profile.update settles: 200, or the catch block of the route: 500 for
\* every error.
UpdateSaved(req) ==
    /\ req.op = "update" /\ req.pc = "update"
    /\ IF req.url = NoUrl
       THEN /\ Respond(req, Reply("update", 200, req.url, req.id))
            /\ UNCHANGED store
       ELSE IF WriteOutcome(store, req.id, req.url) = "written"
            THEN /\ store' = {IF p.id = req.id
                              THEN [p EXCEPT !.url = beforeValidate(req.url)]
                              ELSE p : p \in store}
                 /\ Respond(req, Reply("update", 200, req.url, req.id))
            ELSE /\ Respond(req, Reply("update", 500, req.url, 0))
                 /\ UNCHANGED store
    /\ UNCHANGED nextId
    /\ UNCHANGED <<extension, limiter>>

\* The head of the loop of the batch route, from item req.i on: an item with
\* a missing field is pushed to errors and the loop continues at once.
RECURSIVE SkipMissing(_)
SkipMissing(req) ==
    IF req.i < Len(req.profiles) /\ MissingFields(req.profiles[req.i + 1])
    THEN SkipMissing([req EXCEPT !.errors = Append(@, req.i), !.i = @ + 1])
    ELSE req

\* The response of the batch route: 201 if an item was created, else 400.
BatchReply(req) ==
    [NoReply EXCEPT !.op = "batch",
                    !.status = IF Len(req.created) > 0 THEN 201 ELSE 400,
                    !.created = req.created,
                    !.skipped = req.skipped,
                    !.errors = req.errors,
                    !.total = Len(req.profiles)]

\* The loop of the batch route goes on from item next.i: up to the await of
\* Profile.findOne for the next item that has its fields, or to the response.
BatchLoop(req, next) ==
    LET r == SkipMissing(next)
    IN  IF r.i < Len(r.profiles)
        THEN Continue(req, [r EXCEPT !.pc = "findOne"])
        ELSE Respond(req, BatchReply(r))

\* if (profiles.length === 0 || profiles.length > 50)
BadBatchSize(profiles) == Len(profiles) = 0 \/ Len(profiles) > MAX_BATCH

\* app.post('/api/profiles/batch'), up to the first await.
ReceiveBatch(profiles) ==
    /\ Accepting
    /\ Exclusive(profiles) => requests = EmptyBag
    /\ IF BadBatchSize(profiles)
       THEN Respond(NewRequest,
                    [NoReply EXCEPT !.op = "batch", !.status = 400, !.total = Len(profiles)])
       ELSE BatchLoop(NewRequest,
                      [NewRequest EXCEPT !.op = "batch", !.profiles = profiles])
    /\ UNCHANGED <<store, nextId>>
    /\ UNCHANGED <<extension, limiter>>

\* Profile.findOne resolves for item req.i: the item is skipped, or
\* Profile.create is awaited.
BatchFound(req) ==
    /\ req.op = "batch" /\ req.pc = "findOne"
    /\ IF findOne(store, req.profiles[req.i + 1].url) # {}
       THEN BatchLoop(req, [req EXCEPT !.skipped = Append(@, req.i), !.i = @ + 1])
       ELSE Continue(req, [req EXCEPT !.pc = "create"])
    /\ UNCHANGED <<store, nextId>>
    /\ UNCHANGED <<extension, limiter>>

\* Profile.create settles for item req.i: the item is created, or the catch
\* block of the loop body pushes it to errors.
BatchInserted(req) ==
    /\ req.op = "batch" /\ req.pc = "create"
    /\ LET url == req.profiles[req.i + 1].url
       IN  IF WriteOutcome(store, 0, url) = "written"
           THEN /\ store' = store \cup {[id |-> nextId, url |-> beforeValidate(url)]}
                /\ nextId' = nextId + 1
                /\ BatchLoop(req, [req EXCEPT !.created = Append(@, req.i), !.i = @ + 1])
           ELSE /\ BatchLoop(req, [req EXCEPT !.errors = Append(@, req.i), !.i = @ + 1])
                /\ UNCHANGED <<store, nextId>>
    /\ UNCHANGED <<extension, limiter>>

NextBackend ==
    \/ \E body \in Bodies : ReceiveCreate(body)
    \/ \E id \in ProfileIds : \E url \in SubmittedUrls : ReceiveUpdate(id, url)
    \/ \E profiles \in ProfileArrays : ReceiveBatch(profiles)
    \/ \E req \in BagToSet(requests) :
        \/ CreateFound(req)
        \/ CreateInserted(req)
        \/ UpdateFound(req)
        \/ UpdateSaved(req)
        \/ BatchFound(req)
        \/ BatchInserted(req)

SpecBackend == Init /\ [][NextBackend]_vars

\* C17: url is unique in the store: no two rows have the same url (and no
\* two rows the same id), whatever the interleaving of the create, batch and
\* update handlers.
C17_UniqueUrl ==
    \A p \in store : \A q \in store : (p.url = q.url \/ p.id = q.id) => p = q

\* C17 witness: a create handler passed the find-by-url check and is about
\* to insert a url that another handler has stored in the meantime.
C17_Witness ==
    \E req \in BagToSet(requests) :
        /\ req.pc = "create"
        /\ \E p \in store : p.url = beforeValidate(req.url)

\* The rows with this url, and the elements of a sequence.
StoredAs(url) == {p \in store : p.url = url}
Range(s) == {s[j] : j \in 1..Len(s)}

\* The handler req of POST /api/profiles sends its response in this step.
CreateResponds(req) ==
    /\ req.op = "create"
    /\ CreateFound(req) \/ CreateInserted(req)
    /\ res'.op = "create"

\* C16: idempotence of submission: a create request for a profile URL is
\* answered Created (201, one new record with that url) if the url was not
\* stored, and Duplicate (409, store unchanged) if it was: a url submitted
\* twice gives one Created and one Duplicate, never two records.
C16_Idempotent ==
    [][\A req \in BagToSet(requests) :
        (CreateResponds(req) /\ StartsWithHttp(req.url))
            => IF StoredAs(req.url) = {}
               THEN /\ res'.status = 201
                    /\ store' = store \cup {[id |-> res'.id, url |-> req.url]}
                    /\ Cardinality(store') = Cardinality(store) + 1
               ELSE /\ res'.status = 409
                    /\ store' = store]_vars

\* C18: a POST /profiles whose url, in the form the store keeps it in
\* (after beforeValidate), is the url of a stored record when the route
\* looks it up is answered 409 with that record's id there and then, and
\* the store is not changed.
C18_ConflictForEveryForm ==
    [][\A req \in BagToSet(requests) :
        (req.op = "create" /\ CreateFound(req) /\ StoredAs(beforeValidate(req.url)) # {})
            => /\ res'.op = "create"
               /\ res'.status = 409
               /\ \E p \in StoredAs(beforeValidate(req.url)) : res'.id = p.id
               /\ store' = store]_vars

\* C19: every unique-URL violation the store raises is answered 409, for
\* the create that lost the race and for the update that sets url to the
\* url of another record, and leaves the store unchanged.
C19_UniqueViolationIs409 ==
    [][\A req \in BagToSet(requests) :
        /\ (CreateInserted(req)
              /\ WriteOutcome(store, 0, req.url) = "SequelizeUniqueConstraintError")
             => res'.status = 409 /\ store' = store
        /\ (UpdateSaved(req) /\ req.url # NoUrl
              /\ WriteOutcome(store, req.id, req.url) = "SequelizeUniqueConstraintError")
             => res'.status = 409 /\ store' = store]_vars

\* The part of C19 that holds: a unique-URL violation leaves the store
\* unchanged.
C19_ViolationChangesNothing ==
    [][\A req \in BagToSet(requests) :
        /\ (CreateInserted(req)
              /\ WriteOutcome(store, 0, req.url) = "SequelizeUniqueConstraintError")
             => store' = store
        /\ (UpdateSaved(req) /\ req.url # NoUrl
              /\ WriteOutcome(store, req.id, req.url) = "SequelizeUniqueConstraintError")
             => store' = store]_vars

\* The items of a batch handler that have their class: each index below
\* req.i is in exactly one of created, skipped and errors.
Classified(req) ==
    /\ Range(req.created) \cup Range(req.skipped) \cup Range(req.errors) = 0..(req.i - 1)
    /\ Len(req.created) + Len(req.skipped) + Len(req.errors) = req.i

\* The part of C20 that is about the breakdown and the size of the array:
\* every index is in exactly one class at every moment and in the response
\* (created + skipped + errors = total), and an array of no item or of more
\* than MAX_BATCH items is answered 400.
C20_Breakdown ==
    /\ \A req \in BagToSet(requests) : req.op = "batch" => Classified(req)
    /\ res.op = "batch"
        => IF res.total = 0 \/ res.total > MAX_BATCH
           THEN res.status = 400 /\ Len(res.created) = 0
           ELSE /\ Len(res.created) + Len(res.skipped) + Len(res.errors) = res.total
                /\ Range(res.created) \cup Range(res.skipped) \cup Range(res.errors)
                      = 0..(res.total - 1)

\* C20: the batch route gives every item exactly one class, and an item
\* whose url is stored, or is the url of an earlier item the same request
\* created, is skipped: it never gets as far as Profile.create.
C20_BatchClasses ==
    /\ C20_Breakdown
    /\ \A req \in BagToSet(requests) :
        (req.op = "batch" /\ req.pc = "create")
            => \A k \in Range(req.created) :
                   req.profiles[k + 1].url # req.profiles[req.i + 1].url

\* ------------------------------------------------- the extractor applied

\* The extractor runs on the document and returns its record.
Extract ==
    /\ record = NoRecord
    /\ record' = extractLinkedInProfileAdvanced(page)
    /\ UNCHANGED <<extensionState, batch, started, openTabs, statistics, response,
                   lastProgress, stopRequested, errorEvents, page>>
    /\ UNCHANGED backend

InitExtractor ==
    /\ InitOthers
    /\ page \in Pages(MaxElements, MaxLinks)
    /\ record = NoRecord

NextExtractor == Extract

\* The extractor applied to every document of Pages.
SpecExtractor == InitExtractor /\ [][NextExtractor]_vars

\* C23: for every record the extractor returns, extractionStatus is
\* determined by the record's fields: 'failed' when name is empty, 'partial'
\* when name is not empty and bioLine and location both are, 'success'
\* otherwise.
C23_StatusFromFields ==
    record # NoRecord
        => record.extractionStatus
              = DetermineStatus(record.name, record.bioLine, record.location)

\* The part of C23 that holds: the status of a record the extractor returns
\* without an exception is determined by its fields.
C23_StatusOfNormalReturn ==
    (record # NoRecord /\ ~page.throws)
        => record.extractionStatus
              = DetermineStatus(record.name, record.bioLine, record.location)

\* The count methods 1 and 2 parse for connections and for followers (0:
\* none): the count of method 1 or, when method 1 found neither count, the
\* first count of the fallback scan.
ElementConnection(pg) ==
    IF FirstCount(pg.connectionElements) = 0 /\ FirstCount(pg.followerElements) = 0
    THEN FirstCount(pg.fallbackConnections)
    ELSE FirstCount(pg.connectionElements)

ElementFollower(pg) ==
    IF FirstCount(pg.connectionElements) = 0 /\ FirstCount(pg.followerElements) = 0
    THEN FirstCount(pg.fallbackFollowers)
    ELSE FirstCount(pg.followerElements)

\* The count the extractor parses first (0: none): that of methods 1 and 2
\* or, when they found none, the count of the first link.
ParsedConnection(pg) ==
    IF ElementConnection(pg) # 0 THEN ElementConnection(pg)
    ELSE FirstCount(pg.connectionLinks)

ParsedFollower(pg) ==
    IF ElementFollower(pg) # 0 THEN ElementFollower(pg)
    ELSE FirstCount(pg.followerLinks)

\* The counts of a record are within their ranges.
CountsInRange(rec) ==
    /\ rec.connectionCount \in 0..CONNECTION_CEILING
    /\ rec.followerCount \in 0..FOLLOWER_CEILING

\* A connection count above the ceiling is not kept: the count of methods 1
\* and 2 is reset to 0, the count of a link is passed over.
ConnectionReset(pg, rec) ==
    /\ ElementConnection(pg) > CONNECTION_CEILING => rec.connectionCount = 0
    /\ ParsedConnection(pg) > CONNECTION_CEILING
          => rec.connectionCount # ParsedConnection(pg)

\* C24: count sanitization: in every record the extractor returns
\* connectionCount is within 0..100000 and followerCount within 0..50000000;
\* a parsed connection count above 100,000 is not kept (reset to 0), and a
\* parsed follower count that is not above the ceiling is kept unchanged,
\* whichever of the three methods produced it.
C24_CountSanitization ==
    record # NoRecord
        => /\ CountsInRange(record)
           /\ ConnectionReset(page, record)
           /\ (ParsedFollower(page) # 0 /\ ParsedFollower(page) <= FOLLOWER_CEILING)
                 => record.followerCount = ParsedFollower(page)

\* The part of C24 that holds: a record returned without an exception has
\* its counts in range, a connection count above the ceiling is not kept,
\* and a follower count is kept when methods 1 and 2 parsed it, or when a
\* link gave it and it is below the limit of the link method.
C24_NormalReturnCounts ==
    (record # NoRecord /\ ~page.throws)
        => /\ CountsInRange(record)
           /\ ConnectionReset(page, record)
           /\ (ElementFollower(page) # 0 /\ ElementFollower(page) <= FOLLOWER_CEILING)
                 => record.followerCount = ElementFollower(page)
           /\ (ElementFollower(page) = 0 /\ ParsedFollower(page) # 0
                   /\ ParsedFollower(page) < LINK_FOLLOWER_LIMIT)
                 => record.followerCount = ParsedFollower(page)

\* ----------------------------------------------------- the tab controller

\* A tab-timeout error and a tab-not-found error.
IsTabTimeout(error) == Includes(error, <<"Tab", "loading", "timeout">>)
IsTabNotFound(error) == Includes(error, <<"Tab", "not", "found:">>)

\* Batch b is in the same attempt before and after the step.
SameAttempt(b) ==
    /\ batch'[b].i = batch[b].i
    /\ batch'[b].retryCount = batch[b].retryCount
    /\ batch'[b].tab = batch[b].tab

\* C25: within one attempt the extractor is invoked only after the tab was
\* observed 'complete' and the settle delay has then elapsed; a load wait in
\* which no poll finds 'complete' before the timeout fails with a
\* tab-timeout error, one in which a poll finds the tab gone fails with a
\* tab-not-found error, and in both cases the attempt goes to the catch
\* block: the extractor is not invoked and no create-profile request is sent.
C25_TabControllerOrder ==
    [][\A b \in Batches :
        /\ (batch'[b].pc = "extracting" /\ batch[b].pc # "extracting")
              => batch[b].pc = "settling" /\ SameAttempt(b)
        /\ (batch'[b].pc = "settling" /\ batch[b].pc # "settling")
              => /\ batch[b].pc = "loading" /\ SameAttempt(b)
                 /\ \E polls \in PollRuns :
                       TabComplete(b, polls) /\ SettlingPoll(polls) = "complete"
        /\ (batch'[b].pc = "saving" /\ batch[b].pc # "saving")
              => batch[b].pc = "extracting" /\ SameAttempt(b)
        /\ \A polls \in PollRuns :
              TabLoadFailed(b, polls)
                 => /\ SettlingPoll(polls) # "complete"
                    /\ SettlingPoll(polls) = "gone"
                          => IsTabNotFound(waitForTabComplete(polls))
                    /\ SettlingPoll(polls) \in {"timer", "loading"}
                          => IsTabTimeout(waitForTabComplete(polls))
                    /\ batch'[b].pc \notin {"settling", "extracting", "saving"}
                    /\ batch'[b].saveRequests = batch[b].saveRequests
                    /\ batch'[b].pc = "closing"
                          => /\ batch'[b].after.cont = "catch"
                             /\ batch'[b].after.error = waitForTabComplete(polls)]_vars

\* C25 witness: the load wait of an attempt ended by max checks with the tab
\* still open, and the catch block is closing the tab: no request was sent.
C25_Witness ==
    \E b \in Batches :
        /\ batch[b].pc = "closing"
        /\ batch[b].after.cont = "catch"
        /\ batch[b].after.error = TabLoadMaxChecks
        /\ batch[b].saveRequests = 0

\* ------------------------------------------------------- failed extractions

\* C26: a record the extractor marked as failed is never persisted: no
\* create-profile request is sent for a record whose extractionStatus is
\* 'failed', the record of the extractor's exception path included.
C26_FailedNeverSaved ==
    \A b \in Batches :
        batch[b].saveRequests > 0 => batch[b].profileStatus # "failed"

\* The part of C26 that holds: a record without a name is never sent, and
\* its attempt goes to the catch block with the no-name error.
C26_NamelessNeverSaved ==
    [][\A b \in Batches : \A pg \in WorkerPages :
        NoNameFound(extractLinkedInProfileAdvanced(pg)) => ~ProfileExtracted(b, pg)]_vars

\* ----------------------------------------------------- stop and the retries

\* C27: once a stop request was handled while the loop of batch b was
\* executing, an attempt of b that fails is not followed by another one: no
\* step of b enters the backoff wait, after which processSingleUrl calls
\* chrome.tabs.create for the same URL again.
C27_NoRetryAfterStop ==
    [][\A b \in stopRequested :
        ~(batch[b].pc # "backoff" /\ batch'[b].pc = "backoff")]_vars

\* ------------------------------------------------------ the status response

\* The call chain of batch b is in flight: its loop is executing, or it has
\* left the loop and handleStartBatchProcessing is about to answer.
ChainInFlight(b) == LoopRunning(b) \/ LoopExited(b)

\* The counts of a getProcessingStatus response are consistent.
CountsConsistent(data) ==
    /\ data.successCount + data.errorCount <= data.processedCount
    /\ data.processedCount <= data.totalUrls
    /\ data.activeTabs <= 1

\* C28: every getProcessingStatus response has successCount + errorCount <=
\* processedCount <= totalUrls and activeTabs <= 1, and its isProcessing is
\* true exactly while a batch is being processed (handleGetProcessingStatus
\* changes nothing, so the state the response is compared with is the state
\* it was read from).
C28_StatusConsistent ==
    response.action = "getProcessingStatus"
        => /\ CountsConsistent(response.data)
           /\ response.data.isProcessing <=> (\E b \in Batches : ChainInFlight(b))

\* The part of C28 that holds for a single batch: the bounds that do not
\* depend on the counters a stop request resets.
C28_BoundsOfSingleBatch ==
    response.action = "getProcessingStatus"
        => /\ response.data.activeTabs <= 1
           /\ response.data.isProcessing => (\E b \in Batches : ChainInFlight(b))

\* ------------------------------------------------ uncaught errors in the worker

\* How many 'error' and 'unhandledrejection' events the worker receives.
MaxErrorEvents == 2

\* console.error(...): the whole body of both listeners.
consoleError ==
    /\ errorEvents' = errorEvents + 1
    /\ response' = NoResponse
    /\ UNCHANGED <<extensionState, batch, started, openTabs, statistics,
                   lastProgress, stopRequested>>
    /\ UNCHANGED <<extractor, backend>>

\* self.addEventListener('error', ...): an exception nothing caught.
selfOnError ==
    /\ errorEvents < MaxErrorEvents
    /\ consoleError

\* self.addEventListener('unhandledrejection', ...): a rejected promise
\* nothing handles.
selfOnUnhandledRejection ==
    /\ errorEvents < MaxErrorEvents
    /\ consoleError

\* The worker of SpecSingle with the two events, which can arrive between any
\* two tasks.
NextErrors ==
    \/ NextSingle
    \/ selfOnError
    \/ selfOnUnhandledRejection

SpecErrors == Init /\ [][NextErrors]_vars

\* C21: handling an 'error' or 'unhandledrejection' event resets the state:
\* afterwards no tab that was tracked is open, activeTabs is empty and
\* isProcessing is false.
C21_ErrorResetsState ==
    [][errorEvents' # errorEvents
        => /\ openTabs' \cap extensionState.activeTabs = {}
           /\ extensionState'.activeTabs = {}
           /\ ~extensionState'.isProcessing]_vars

\* ------------------------------------------------- the persisted statistics

\* const resetStats = {...} in handleResetStatistics
ResetStatistics ==
    [totalProcessed |-> 0, totalSuccess |-> 0, totalErrors |-> 0, totalDuplicates |-> 0]

\* handleResetStatistics(sendResponse): chrome.storage.local.set is called
\* with the zeroed statistics, and the response carries them.
handleResetStatistics ==
    /\ statistics' = ResetStatistics
    /\ response' = [action |-> "resetStatistics", success |-> TRUE,
                    error |-> NULL, data |-> ResetStatistics]
    /\ UNCHANGED <<extensionState, batch, started, openTabs, lastProgress, stopRequested>>
    /\ UNCHANGED <<errorEvents, extractor, backend>>

\* A start request that is accepted only when no call chain is in flight.
handleNextStart(urls) ==
    /\ (\A b \in Batches : ~ChainInFlight(b)) \/ AlreadyRunning(extensionState) \/ NoUrls(urls)
    /\ handleStartBatchProcessing(urls)

\* The worker when its batches follow one another, each completed or
\* cancelled, with resetStatistics requests in between.  Each of its
\* behaviours is a behaviour of the worker.
NextStatistics ==
    \/ \E urls \in UrlLists : handleNextStart(urls)
    \/ handleStopBatchProcessing
    \/ handleResetStatistics
    \/ \E b \in Batches :
        \/ TabCreated(b)
        \/ TabCreateFailed(b)
        \/ \E polls \in OverlapPolls : TabComplete(b, polls)
        \/ \E polls \in OverlapPolls : TabLoadFailed(b, polls)
        \/ SettleDone(b)
        \/ ProfileExtracted(b, ProfilePage)
        \/ ExtractionFailed(b, NoNameFoundError)
        \/ \E reply \in OverlapReplies : ProfileSaved(b, reply)
        \/ TabClosed(b)
        \/ BackoffDone(b)
        \/ ThrottleDone(b)
        \/ StatisticsRead(b)
        \/ BatchCompleted(b)

SpecStatistics == Init /\ [][NextStatistics]_vars

\* A stored counter is a number >= 0; a field that was never written counts
\* as 0.
IsCount(x) == x = Undefined \/ x >= 0
CountOf(x) == IF x = Undefined THEN 0 ELSE x

\* C29: the stored statistics are consistent: every counter is a
\* non-negative integer and totalProcessed is the sum of the other three.
C29_StatisticsConsistent ==
    /\ IsCount(statistics.totalProcessed)
    /\ IsCount(statistics.totalSuccess)
    /\ IsCount(statistics.totalErrors)
    /\ IsCount(statistics.totalDuplicates)
    /\ CountOf(statistics.totalProcessed)
         = CountOf(statistics.totalSuccess) + CountOf(statistics.totalErrors)
             + CountOf(statistics.totalDuplicates)

\* What holds: right after a resetStatistics request, and with the counters
\* of the batches that ran to their end, the three tallies are counts.
C29_TalliesAreCounts ==
    /\ statistics.totalProcessed >= 0
    /\ statistics.totalSuccess >= 0
    /\ statistics.totalErrors >= 0

\* --------------------------------------------------------------- termination

\* The task that continues the call chain of batch b: the promise it awaits
\* settles (a tab operation, the backend's reply, a storage call) or its
\* timer fires.
ChainStep(b) ==
    \/ TabCreated(b)
    \/ TabCreateFailed(b)
    \/ \E polls \in PollRuns : TabComplete(b, polls)
    \/ \E polls \in PollRuns : TabLoadFailed(b, polls)
    \/ SettleDone(b)
    \/ \E pg \in WorkerPages : ProfileExtracted(b, pg)
    \/ \E error \in ExtractionErrors : ExtractionFailed(b, error)
    \/ \E reply \in BackendReplies : ProfileSaved(b, reply)
    \/ TabClosed(b)
    \/ BackoffDone(b)
    \/ ThrottleDone(b)
    \/ StatisticsRead(b)
    \/ BatchCompleted(b)

\* The worker of SpecSingle when every promise a call chain awaits settles
\* and every timer fires (waitForTabComplete bounds the load wait itself).
SpecFair == SpecSingle /\ \A b \in Batches : WF_vars(ChainStep(b))

\* The response that answers an accepted start request.
IsSummaryResponse(r) == r.action = "startBatchProcessing" /\ r.success

\* The step that ends the call chain of batch b.
Ends(b) == batch[b].pc # "done" /\ batch'[b].pc = "done"

windowMs == 2
max == 2

\* How far Date.now() advances, and how many requests are passed on.
MaxClock == 4
MaxAdmitted == 4

\* req.ip: an address is the sequence of its characters after "10.0.0.", so
\* that 10.0.0.1 is a prefix of 10.0.0.11.
Ips == {<<"1">>, <<"1", "1">>, <<"2">>}

\* The key `${ip}-${now}` of the Map, as the pair of its parts.
Key(ip, now) == <<ip, now>>

\* p is a prefix of s.
IsPrefix(p, s) == Len(p) <= Len(s) /\ SubSeq(s, 1, Len(p)) = p

\* key.startsWith(ip): an address holds no '-', so the key starts with ip
\* exactly when the address in the key does.
StartsWith(key, ip) == IsPrefix(ip, key[1])

\* "Clean old requests": what is left of the Map at time now.
Cleaned(map, now) == {key \in map : ~(key[2] < now - windowMs)}

\* "Count current requests"
userRequests(map, ip) == Cardinality({key \in map : StartsWith(key, ip)})

\* if (userRequests >= max)
TooMany(map, ip) == userRequests(map, ip) >= max

\* Date.now() advances by a millisecond.
Tick ==
    /\ clock < MaxClock
    /\ clock' = clock + 1
    /\ res' = NoReply
    /\ UNCHANGED <<rateRequests, admitted>>
    /\ UNCHANGED <<extension, store, nextId, requests>>

\* The middleware createRateLimit returns, for a request of address ip: the
\* 429 response, or the request is recorded and next() is called.
rateLimit(ip) ==
    /\ Len(admitted) < MaxAdmitted
    /\ LET now == clock
           map == Cleaned(rateRequests, now)
       IN  \/ /\ TooMany(map, ip)
              /\ rateRequests' = map
              /\ res' = [NoReply EXCEPT !.op = "rateLimit", !.status = 429]
              /\ UNCHANGED admitted
           \/ /\ ~TooMany(map, ip)
              /\ rateRequests' = map \cup {Key(ip, now)}
              /\ res' = NoReply
              /\ admitted' = Append(admitted, Key(ip, now))
    /\ UNCHANGED clock
    /\ UNCHANGED <<extension, store, nextId, requests>>

NextLimiter ==
    \/ Tick
    \/ \E ip \in Ips : rateLimit(ip)

SpecLimiter == Init /\ [][NextLimiter]_vars

\* The requests of address ip that were passed on at a time in t..t+windowMs-1.
AdmittedIn(ip, t) ==
    {n \in DOMAIN admitted :
        admitted[n][1] = ip /\ admitted[n][2] >= t /\ admitted[n][2] < t + windowMs}

\* C30: in no window of windowMs milliseconds are more than max requests of
\* one address passed on, whenever those requests arrive.
C30_RateLimit ==
    \A ip \in Ips : \A t \in 0..MaxClock : Cardinality(AdmittedIn(ip, t)) <= max

\* What holds: the instants at which requests of one address are passed on
\* number at most max in every window.
C30_InstantsLimited ==
    \A ip \in Ips : \A t \in 0..MaxClock :
        Cardinality({admitted[n][2] : n \in AdmittedIn(ip, t)}) <= max

\* What holds as well: a request answered 429 leaves the Map without a new
\* key and is not passed on.
C30_RejectedNotRecorded ==
    [][res'.status = 429
        => rateRequests' \subseteq rateRequests /\ admitted' = admitted]_vars
====
